---- MODULE Spec2Model ----
(***************************************************************************)
(* A model of the dersp relay (src/dersp/src): the routing service with    *)
(* its two directories and its command loop, the per-connection reader and *)
(* writer tasks, the outbound mesh client and the notifier tasks the       *)
(* service spawns.  Every tokio task is a process of the model; every      *)
(* bounded mpsc channel is a sequence whose length the senders respect.    *)
(***************************************************************************)
EXTENDS Integers, Sequences, FiniteSets, TLC

\* ------------------------------------------------------------------ bounds
\* connections (accepted or dialed) one behaviour of Spec opens
MaxConn == 3
\* frames the remote ends of Spec send in one behaviour
MaxFrames == 2
\* socket writes that fail with a transport error in one behaviour
MaxFail == 1
\* notifier tasks alive at once: one per admission, one per subscription
MaxTasks == MaxConn + MaxFrames
\* frames the clients of SpecLocal send in one behaviour
LocalMaxFrames == 3
\* connections, frames and failed socket writes of SpecIo
IoMaxConn == 2
IoMaxFrames == 2
IoMaxFail == 1
\* the three budgets of SpecMesh, the two-relay scenario
MeshMaxConn == 4
MeshMaxFrames == 2
MeshMaxFail == 0
\* the relay with a slow mesh peer
SlowMaxConn == 3
SlowMaxFrames == 3
SlowMaxFail == 0
\* the relay whose handshakes are followed
HsMaxConn == 2
\* the longest packet payload and the largest byte in it
MaxPayload == 3
MaxByte == 2

\* ------------------------------------------------------- program constants
\* channel(1): the service command channel
\* the buffer of the first read of a socket, in bytes
UPGRADE_MSG_SIZE == 4096
\* frame type and length in front of every frame, in bytes
HEADER_SIZE == 5
CommandChannelCap == 1
\* channel(1): the queue in front of every writer task
SinkCap == 1

\* ------------------------------------------------------------------- data
Relays == {1, 2}
\* Option<String>::None of a mesh key
NoKey == "none"
ClientKeys == {"A", "B", "M"}
\* the public key of relay r's service_sk, presented when r dials a peer
RelayKey(r) == IF r = 1 THEN "R1" ELSE "R2"
\* the per-connection server key a dialer learns from the relay it dials
\* (0 is a relay outside the model)
HsKey(t) == IF t = 0 THEN "H0" ELSE IF t = 1 THEN "H1" ELSE IF t = 2 THEN "H2" ELSE "H3"
Keys == ClientKeys \cup {"X", "R1", "R2", "H0", "H1", "H2", "H3"}
\* a sink is the index of the connection whose writer owns the receiver
NoSink == 0

NoCmd == [ty |-> "none"]
NoFrame == [ty |-> "none"]
\* no frame is on its way
NoCodec == [stage |-> "none", frame |-> [frame_type |-> "none", inner |-> <<>>],
            wire |-> <<>>, data |-> <<>>, fed |-> 0, last |-> "none",
            partial |-> FALSE, message |-> <<>>, ty |-> "none",
            decoded |-> [ok |-> FALSE], tamper |-> "none"]
Idle == [st |-> "recv", sink |-> NoSink, cmd |-> NoCmd]

VARIABLES
    cfg,          \* what the environment of this behaviour may do (fixed by Init)
    meshkey,      \* DerpService.meshkey of each relay
    peers_sinks,  \* DerpService.peers_sinks of each relay: key -> sink
    mesh,         \* DerpService.mesh of each relay: key -> sink
    cmdq,         \* the service command channel of each relay
    cloop,        \* the command_loop task of each relay
    conn,         \* the connections, in the order they were opened
    notifiers,    \* the spawned notifier tasks: what each has still to send
    pending,      \* handshakes a dialing relay completed, not yet registered
    dialed,       \* the mesh peers DerpService::new has dialed
    sent,         \* history: the frames the environment sent, as read
    nfail,        \* history: transport errors so far
    lastSub,      \* history: the last SubscribeForPeerChanges processed
    owed,         \* history: PeerPresent fan-out that is due
    handshake,    \* the handle_client tasks: the handshake of each accepted socket
    codec         \* a frame on its way through encoder, socket and decoder

vars == <<cfg, meshkey, peers_sinks, mesh, cmdq, cloop, conn, notifiers,
          pending, dialed, sent, nfail, lastSub, owed, handshake, codec>>

Conns == 1..Len(conn)
NoDir == [k \in Keys |-> NoSink]
KeysOf(dir) == {k \in Keys : dir[k] # NoSink}

\* the orders in which a HashMap may be iterated
Perms(S) ==
    {f \in [1..Cardinality(S) -> S] :
        \A i, j \in 1..Cardinality(S) : i # j => f[i] # f[j]}

\* --------------------------------------------------------------- admission
\* the match on (&self.meshkey, &meshkey) of add_new_client
Admission_noCompare(s, c) ==
    IF s = NoKey /\ c = NoKey THEN "plain"
    ELSE IF s = NoKey THEN "reject"
    ELSE IF c = NoKey THEN "plain"
    ELSE "mesh"

Admission(s, c) ==
    IF s = NoKey /\ c = NoKey THEN "plain"
    ELSE IF s = NoKey THEN "reject"
    ELSE IF c = NoKey THEN "plain"
    ELSE IF s = c THEN "mesh"
    ELSE "reject"

\* Client::new and Client::run: both tasks spawned, the queue empty
\* (mk is the mesh key the remote end presented in its handshake)
NewConn(r, kind, pk, mk, cm, peer) ==
    [relay |-> r, kind |-> kind, pk |-> pk, mk |-> mk, can_mesh |-> cm,
     peer |-> peer, rd |-> "run", wr |-> "run", q |-> <<>>, out |-> <<>>,
     nread |-> 0]

\* a connection add_new_client bailed out of: the socket is dropped, no
\* task is spawned
Rejected_spawned(r, pk, mk, peer) == NewConn(r, "rejected", pk, mk, FALSE, peer)

Rejected(r, pk, mk, peer) ==
    [NewConn(r, "rejected", pk, mk, FALSE, peer) EXCEPT !.rd = "exit", !.wr = "exit"]

\* self.peers_sinks.insert(client_pk, sink)
InsertClient_keepOld(dir, pk, sink) ==
    IF dir[pk] = NoSink THEN [dir EXCEPT ![pk] = sink] ELSE dir

InsertClient(dir, pk, sink) == [dir EXCEPT ![pk] = sink]

\* notify_all_mesh_peers: a clone of the mesh directory, walked by a spawned task
notify_all_mesh_peers_first(m, pk) ==
    {IF Cardinality(KeysOf(m)) = 0 THEN <<>>
     ELSE <<[sink |-> m[ord[1]], pk |-> pk]>> : ord \in Perms(KeysOf(m))}

notify_all_mesh_peers(m, pk) ==
    {[i \in 1..Cardinality(KeysOf(m)) |-> [sink |-> m[ord[i]], pk |-> pk]] :
        ord \in Perms(KeysOf(m))}

\* a spawned task with nothing to send ends at once
Spawn(tasks, work) == IF work = <<>> THEN tasks ELSE Append(tasks, work)

\* the connection a dialing relay holds learns which connection answers it;
\* a rejected dialer reads no ServerInfo and MeshClient::run returns Err
LinkPeer(cs, peer, n) ==
    IF peer = 0 THEN cs ELSE [cs EXCEPT ![peer].peer = n]
FailPeer(cs, peer) ==
    IF peer = 0 THEN cs ELSE [cs EXCEPT ![peer].rd = "exit", ![peer].wr = "exit"]

\* handle_client after a completed handshake: add_new_client under the write lock
add_new_client(r, pk, c, peer) ==
    LET verdict == Admission(meshkey[r], c)
        n == Len(conn) + 1
    IN  /\ IF verdict = "reject"
           THEN /\ conn' = Append(FailPeer(conn, peer), Rejected(r, pk, c, peer))
                /\ UNCHANGED <<peers_sinks, notifiers, owed>>
           ELSE /\ conn' = Append(LinkPeer(conn, peer, n),
                                  NewConn(r, "client", pk, c, verdict = "mesh", peer))
                /\ peers_sinks' = [peers_sinks EXCEPT ![r] = InsertClient(@, pk, n)]
                /\ \E work \in notify_all_mesh_peers(mesh[r], pk) :
                       notifiers' = Spawn(notifiers, work)
                /\ owed' = owed \cup {<<mesh[r][k], pk>> : k \in KeysOf(mesh[r])}
        /\ UNCHANGED <<cfg, codec, meshkey, mesh, cmdq, cloop, dialed, sent, nfail, lastSub>>

\* a connection from outside the model completes its handshake
EnvConnect ==
    \E reg \in cfg.regs :
        /\ Len(conn) < cfg.maxConn
        /\ add_new_client(reg.relay, reg.pk, reg.meshkey, 0)
        /\ UNCHANGED <<pending, handshake>>

\* the connection a modelled relay dialed completes its handshake
MeshAccept ==
    \E p \in pending :
        /\ add_new_client(p.relay, p.pk, p.meshkey, p.peer)
        /\ pending' = pending \ {p}
        /\ UNCHANGED handshake

\* ------------------------------------------------------------ mesh client
\* config.mesh_peers is a list of socket addresses: 0 is a relay outside the
\* model, 1 and 2 are the relays, 3 is one more address of relay 1
Addrs == {0, 1, 2, 3}
RelayAt(a) == IF a = 3 THEN 1 ELSE a

\* Service::run can be called only with what DerpService::new returned, and
\* new returns after the loop over config.mesh_peers: a relay answers
\* handshakes once each of its own dials has ended
Running(t) ==
    meshkey[t] = NoKey \/ \A a \in cfg.peers[t] : <<t, a>> \in dialed

\* mesh_client.start() returns Err while the peer does not listen yet:
\* new() logs "Failed to start peer client" and goes on to the next address
MeshDialRefused ==
    \E r \in cfg.up, a \in Addrs :
        /\ meshkey[r] # NoKey
        /\ a \in cfg.peers[r]
        /\ <<r, a>> \notin dialed
        /\ RelayAt(a) # 0
        /\ ~Running(RelayAt(a))
        /\ \A c \in Conns : conn[c].relay = r => conn[c].kind = "mesh"
        /\ dialed' = dialed \cup {<<r, a>>}
        /\ UNCHANGED <<cfg, handshake, codec, meshkey, peers_sinks, mesh, cmdq, cloop,
                       conn, notifiers, pending, sent, nfail, lastSub, owed>>

MeshDial_withoutKey ==
    \E r \in cfg.up, a \in Addrs, hs \in {"ok", "late_fail"} :
        LET t == RelayAt(a)
            n == Len(conn) + 1
            st == IF hs = "ok" THEN "run" ELSE "exit"
            hello == IF hs = "ok"
                     THEN <<[cmd |-> NoCmd, frame |-> [ty |-> "WatchConns"]]>>
                     ELSE <<>>
        IN  /\ a \in cfg.peers[r]
            /\ <<r, a>> \notin dialed
            /\ t # 0 => (hs = "ok" /\ Running(t))
            /\ Len(conn) < cfg.maxConn
            \* new() returns before run() accepts the first client
            /\ \A c \in Conns : conn[c].relay = r => conn[c].kind = "mesh"
            /\ conn' = Append(conn,
                   [NewConn(r, "mesh", HsKey(a), meshkey[r], TRUE,
                           IF t = 0 THEN 0 ELSE -1)
                        EXCEPT !.rd = st, !.wr = st, !.out = hello])
            /\ mesh' = [mesh EXCEPT ![r][HsKey(a)] = n]
            /\ dialed' = dialed \cup {<<r, a>>}
            /\ pending' = IF t = 0 THEN pending
                          ELSE pending \cup {[relay |-> t, pk |-> RelayKey(r),
                                              meshkey |-> meshkey[r], peer |-> n]}
            /\ UNCHANGED <<cfg, handshake, codec, meshkey, peers_sinks, cmdq, cloop, notifiers,
                           sent, nfail, lastSub, owed>>

\* DerpService::new: one MeshClient::new + start per configured peer, then
\* mesh.insert(mesh_peer_pk, sender).  MeshClient::run sends the peer's key
\* to start() right after exchange_keys; read_server_info and
\* write_watch_conns come after it and may still fail (hs = "late_fail"),
\* which ends run and drops the receiver of the sender already returned.
MeshDial ==
    \E r \in cfg.up, a \in Addrs, hs \in {"ok", "late_fail"} :
        LET t == RelayAt(a)
            n == Len(conn) + 1
            st == IF hs = "ok" THEN "run" ELSE "exit"
            hello == IF hs = "ok"
                     THEN <<[cmd |-> NoCmd, frame |-> [ty |-> "WatchConns"]]>>
                     ELSE <<>>
        IN  /\ meshkey[r] # NoKey
            /\ a \in cfg.peers[r]
            /\ <<r, a>> \notin dialed
            /\ t # 0 => (hs = "ok" /\ Running(t))
            /\ Len(conn) < cfg.maxConn
            \* new() returns before run() accepts the first client
            /\ \A c \in Conns : conn[c].relay = r => conn[c].kind = "mesh"
            /\ conn' = Append(conn,
                   [NewConn(r, "mesh", HsKey(a), meshkey[r], TRUE,
                           IF t = 0 THEN 0 ELSE -1)
                        EXCEPT !.rd = st, !.wr = st, !.out = hello])
            /\ mesh' = [mesh EXCEPT ![r][HsKey(a)] = n]
            /\ dialed' = dialed \cup {<<r, a>>}
            /\ pending' = IF t = 0 THEN pending
                          ELSE pending \cup {[relay |-> t, pk |-> RelayKey(r),
                                              meshkey |-> meshkey[r], peer |-> n]}
            /\ UNCHANGED <<cfg, handshake, codec, meshkey, peers_sinks, cmdq, cloop, notifiers,
                           sent, nfail, lastSub, owed>>

\* ---------------------------------------------------------------- readers
\* What one turn of a read loop does with frame f: the command it sends to
\* the service (cmd), the state of the task after the turn (rd) and its
\* state when the send finds the command channel closed (closed).
Client_read_loop_anySubscribes(c, f) ==
    LET me == conn[c] IN
    CASE f.ty = "SendPacket" ->
            [cmd |-> [ty |-> "SendPacket", source |-> me.pk,
                      target |-> f.target, payload |-> f.payload],
             rd |-> "run", closed |-> "exit"]
      [] f.ty = "WatchConns" ->
            [cmd |-> [ty |-> "Subscribe", pk |-> me.pk, sink |-> c],
             rd |-> "run", closed |-> "exit"]
      [] f.ty = "PeerPresent" ->
            [cmd |-> [ty |-> "PeerPresent", pk |-> f.pk, sink |-> c],
             rd |-> "run", closed |-> "panic"]
      [] OTHER -> [cmd |-> NoCmd, rd |-> "panic", closed |-> "panic"]

\* Client::read_loop
Client_read_loop(c, f) ==
    LET me == conn[c] IN
    CASE f.ty = "SendPacket" ->
            [cmd |-> [ty |-> "SendPacket", source |-> me.pk,
                      target |-> f.target, payload |-> f.payload],
             rd |-> "run", closed |-> "exit"]
      [] f.ty = "WatchConns" ->
            IF ~me.can_mesh
            THEN [cmd |-> NoCmd, rd |-> "run", closed |-> "run"]
            ELSE [cmd |-> [ty |-> "Subscribe", pk |-> me.pk, sink |-> c],
                  rd |-> "run", closed |-> "exit"]
      [] f.ty = "PeerPresent" ->
            [cmd |-> [ty |-> "PeerPresent", pk |-> f.pk, sink |-> c],
             rd |-> "run", closed |-> "panic"]
      [] OTHER -> [cmd |-> NoCmd, rd |-> "panic", closed |-> "panic"]

\* MeshClient::read_loop
Mesh_read_loop(c, f) ==
    CASE f.ty = "PeerPresent" ->
            [cmd |-> [ty |-> "PeerPresent", pk |-> f.pk, sink |-> c],
             rd |-> "run", closed |-> "panic"]
      [] f.ty = "ForwardPacket" ->
            [cmd |-> [ty |-> "SendPacket", source |-> f.source,
                      target |-> f.target, payload |-> f.payload],
             rd |-> "run", closed |-> "exit"]
      [] OTHER -> [cmd |-> NoCmd, rd |-> "panic", closed |-> "panic"]

read_loop(c, f) ==
    IF conn[c].kind = "client" THEN Client_read_loop(c, f) ELSE Mesh_read_loop(c, f)

\* command_loop returned Err: its Receiver is dropped, the channel is closed
LoopDead(r) == cloop[r].st = "failed"

\* get_next_message returned f; command_sender.send(..).await blocks while
\* the channel is full and fails once the channel is closed
ReaderStep(c, f) ==
    LET me == conn[c]
        r == me.relay
        res == read_loop(c, f)
        sends == res.cmd.ty # "none"
    IN  /\ me.rd = "run"
        /\ (sends /\ ~LoopDead(r)) => Len(cmdq[r]) < CommandChannelCap
        /\ cmdq' = IF sends /\ ~LoopDead(r)
                   THEN [cmdq EXCEPT ![r] = Append(@, res.cmd)]
                   ELSE cmdq
        /\ conn' = [conn EXCEPT
                      ![c].rd = IF sends /\ LoopDead(r) THEN res.closed ELSE res.rd,
                      ![c].nread = @ + 1]
        /\ UNCHANGED <<cfg, handshake, codec, meshkey, peers_sinks, mesh, cloop, notifiers,
                       pending, dialed, nfail, lastSub, owed>>

WithPayload(f, p) ==
    IF f.ty \in {"SendPacket", "ForwardPacket"} THEN [f EXCEPT !.payload = p] ELSE f

\* a frame arrives from a peer outside the model; its payload names the
\* connection and the place of the frame on it
ReadEnv ==
    \E c \in Conns :
        \E f0 \in (IF conn[c].kind = "client" THEN cfg.cframes ELSE cfg.mframes) :
            LET f == WithPayload(f0, 10 * c + conn[c].nread + 1)
                r == conn[c].relay
            IN  /\ conn[c].peer = 0
                /\ Cardinality(sent) < cfg.maxFrames
                /\ ReaderStep(c, f)
                /\ sent' = sent \cup
                      {[conn |-> c, n |-> conn[c].nread + 1, frame |-> f,
                        reg |-> peers_sinks[r][conn[c].pk] = c,
                        route |-> IF f.ty = "SendPacket"
                                  THEN peers_sinks[r][f.target] ELSE NoSink]}

\* DerpReader::get_next_message when the socket yields no frame.  On "eof"
\* read returns Ok(0): nothing is appended to the input buffer, next_message
\* says InsufficientData again and the loop reads again, for ever ("eof" is
\* the state of a reader polling a closed socket).  On "error" (read or
\* Header::decode fails) the ? returns the Err and the read loop ends.
get_next_message(ev) == IF ev = "eof" THEN "eof" ELSE "exit"

\* the remote end closes or resets a connection
ReadFault ==
    \E c \in Conns, ev \in {"eof", "error"} :
        /\ conn[c].rd = "run"
        /\ conn[c].peer = 0
        /\ conn' = [conn EXCEPT ![c].rd = get_next_message(ev)]
        /\ UNCHANGED <<cfg, handshake, codec, meshkey, peers_sinks, mesh, cmdq, cloop, notifiers,
                       pending, dialed, sent, nfail, lastSub, owed>>

\* the next frame the relay at the other end wrote arrives
ReadWire ==
    \E c \in Conns :
        /\ conn[c].peer > 0
        /\ conn[c].nread < Len(conn[conn[c].peer].out)
        /\ ReaderStep(c, conn[conn[c].peer].out[conn[c].nread + 1].frame)
        /\ UNCHANGED sent

\* ----------------------------------------------------------- command loop
\* the SendPacket arm: peers_sinks.get(&target), a miss goes on with the loop
SendPacketArm_missStops(dir, cmd) ==
    IF dir[cmd.target] = NoSink
    THEN [st |-> "failed", sink |-> NoSink, cmd |-> NoCmd]
    ELSE [st |-> "send", sink |-> dir[cmd.target], cmd |-> cmd]

SendPacketArm(dir, cmd) ==
    IF dir[cmd.target] = NoSink
    THEN Idle
    ELSE [st |-> "send", sink |-> dir[cmd.target], cmd |-> cmd]

\* the PeerPresent arm: peers_sinks.entry(pk), Occupied is left alone
PeerPresentArm_overwrite(dir, pk, sink) == [dir EXCEPT ![pk] = sink]

PeerPresentArm(dir, pk, sink) ==
    IF dir[pk] # NoSink THEN dir ELSE [dir EXCEPT ![pk] = sink]

\* the SubscribeForPeerChanges arm: mesh.insert, then the keys of peers_sinks
\* that are not keys of mesh
SubscribeArm(m, pk, sink) == [m EXCEPT ![pk] = sink]
current_peers_none(ps, m) == {}
current_peers(ps, m) == {k \in KeysOf(ps) : m[k] = NoSink}

\* notify_about_all_clients: a spawned task sends one PeerPresent per key
notify_about_all_clients(sink, keys) ==
    {[i \in 1..Cardinality(keys) |-> [sink |-> sink, pk |-> ord[i]]] :
        ord \in Perms(keys)}

\* the keys whose entry in peers_sinks is the sink of a connection that was
\* admitted on relay r with that key
LocalClients(r) ==
    {k \in Keys : /\ peers_sinks[r][k] # NoSink
                  /\ conn[peers_sinks[r][k]].kind = "client"
                  /\ conn[peers_sinks[r][k]].relay = r
                  /\ conn[peers_sinks[r][k]].pk = k}

\* r.recv() returned a command: the arm up to its first await on a sink
LoopRecv(r) ==
    LET cmd == Head(cmdq[r])
        newMesh == IF cmd.ty = "Subscribe"
                   THEN SubscribeArm(mesh[r], cmd.pk, cmd.sink) ELSE mesh[r]
        newPeers == IF cmd.ty = "PeerPresent"
                    THEN PeerPresentArm(peers_sinks[r], cmd.pk, cmd.sink)
                    ELSE peers_sinks[r]
        snap == current_peers(newPeers, newMesh)
    IN  /\ cloop[r].st = "recv"
        /\ cmdq[r] # <<>>
        /\ cmdq' = [cmdq EXCEPT ![r] = Tail(@)]
        /\ cloop' = [cloop EXCEPT ![r] = IF cmd.ty = "SendPacket"
                                         THEN SendPacketArm(peers_sinks[r], cmd)
                                         ELSE Idle]
        /\ mesh' = [mesh EXCEPT ![r] = newMesh]
        /\ peers_sinks' = [peers_sinks EXCEPT ![r] = newPeers]
        /\ IF cmd.ty = "Subscribe"
           THEN /\ \E work \in notify_about_all_clients(cmd.sink, snap) :
                       notifiers' = Spawn(notifiers, work)
                /\ lastSub' = [relay |-> r, pk |-> cmd.pk, sink |-> cmd.sink,
                               snap |-> snap, locals |-> LocalClients(r),
                               meshkeys |-> KeysOf(newMesh)]
           ELSE UNCHANGED <<notifiers, lastSub>>
        /\ UNCHANGED <<cfg, handshake, codec, meshkey, conn, pending, dialed, sent, nfail, owed>>

\* sink.send(WriteLoopCommands::SendPacket{..}).await?  -- waits for room in
\* the queue; Err, and with it the end of command_loop, when the writer that
\* owned the receiver is gone
LoopDispatch(r) ==
    LET s == cloop[r].sink IN
    /\ cloop[r].st = "send"
    /\ IF conn[s].wr # "run"
       THEN /\ cloop' = [cloop EXCEPT ![r] =
                            [st |-> "failed", sink |-> NoSink, cmd |-> NoCmd]]
            /\ cmdq' = [cmdq EXCEPT ![r] = <<>>]
            /\ UNCHANGED conn
       ELSE /\ Len(conn[s].q) < SinkCap
            /\ conn' = [conn EXCEPT ![s].q = Append(@, cloop[r].cmd)]
            /\ cloop' = [cloop EXCEPT ![r] = Idle]
            /\ UNCHANGED cmdq
    /\ UNCHANGED <<cfg, handshake, codec, meshkey, peers_sinks, mesh, notifiers, pending, dialed,
                   sent, nfail, lastSub, owed>>

\* ---------------------------------------------------------------- writers
\* the frame written for a packet whose target is this connection's key
RecvPacketFrame_src(cmd) ==
    [ty |-> "RecvPacket", key |-> cmd.source, payload |-> cmd.payload]

RecvPacketFrame(cmd) ==
    [ty |-> "RecvPacket", key |-> cmd.target, payload |-> cmd.payload]

\* Client::write_loop: the frame one command makes it write, and the state
\* of the task afterwards
Client_write_loop(me, cmd) ==
    IF cmd.ty = "SendPacket"
    THEN IF cmd.target # me.pk
         THEN IF me.can_mesh
              THEN [frame |-> [ty |-> "ForwardPacket", source |-> cmd.source,
                               target |-> cmd.target, payload |-> cmd.payload],
                    wr |-> "run"]
              ELSE [frame |-> NoFrame, wr |-> "panic"]
         ELSE [frame |-> RecvPacketFrame(cmd), wr |-> "run"]
    ELSE [frame |-> [ty |-> "PeerPresent", pk |-> cmd.pk], wr |-> "run"]

\* write_loop of mesh_client.rs
Mesh_write_loop(me, cmd) ==
    IF cmd.ty = "PeerPresent"
    THEN [frame |-> [ty |-> "PeerPresent", pk |-> cmd.pk], wr |-> "run"]
    ELSE [frame |-> NoFrame, wr |-> "panic"]

write_loop(me, cmd) ==
    IF me.kind = "client" THEN Client_write_loop(me, cmd) ELSE Mesh_write_loop(me, cmd)

\* how each writer ends when it can go on no longer: Client::write_loop
\* returns (Err of a write, Ok on None), the mesh writer unwraps and todo!()s
WriterEnd(me) == IF me.kind = "client" THEN "exit" ELSE "panic"

\* some Sender of connection c's queue is still alive
Held(c) ==
    \/ conn[c].rd \in {"run", "eof"}
    \/ \E r \in Relays, k \in Keys : peers_sinks[r][k] = c \/ mesh[r][k] = c
    \/ \E r \in Relays : cloop[r].st = "send" /\ cloop[r].sink = c
    \/ \E r \in Relays : \E i \in DOMAIN cmdq[r] :
          cmdq[r][i].ty \in {"Subscribe", "PeerPresent"} /\ cmdq[r][i].sink = c
    \/ \E i \in DOMAIN notifiers : \E j \in DOMAIN notifiers[i] :
          notifiers[i][j].sink = c

write_all_front(out, e) == <<e>> \o out

\* w.write_all(&buf): the bytes follow everything written on the socket before
write_all(out, e) == Append(out, e)

\* one turn of a write loop: r.recv() returned a command (or None, when no
\* sender is left) and the frame is written, unless the write fails
WriterStep(c) ==
    /\ c \in Conns
    /\ conn[c].wr = "run"
    /\ LET me == conn[c] IN
       IF me.q = <<>>
       THEN /\ ~Held(c)
            /\ conn' = [conn EXCEPT ![c].wr = WriterEnd(me)]
            /\ UNCHANGED nfail
       ELSE LET cmd == Head(me.q)
                res == write_loop(me, cmd)
            IN  \E ok \in BOOLEAN :
                  /\ ~ok => (res.frame.ty # "none" /\ nfail < cfg.maxFail)
                  /\ conn' = [conn EXCEPT ![c] =
                       [@ EXCEPT !.q = Tail(@),
                                 !.wr = IF ok THEN res.wr ELSE WriterEnd(me),
                                 !.out = IF ok /\ res.frame.ty # "none"
                                         THEN write_all(@, [cmd |-> cmd, frame |-> res.frame])
                                         ELSE @]]
                  /\ nfail' = IF ok THEN nfail ELSE nfail + 1
    /\ UNCHANGED <<cfg, handshake, codec, meshkey, peers_sinks, mesh, cmdq, cloop, notifiers,
                   pending, dialed, sent, lastSub, owed>>

\* -------------------------------------------------------------- notifiers
RemoveAt(s, i) == SubSeq(s, 1, i - 1) \o SubSeq(s, i + 1, Len(s))

\* one turn of the for loop of a spawned notifier: sink.send(PeerPresent(pk)),
\* an Err is logged and the loop goes on
NotifierStep(i) ==
    /\ i \in DOMAIN notifiers
    /\ LET h == Head(notifiers[i])
           rest == Tail(notifiers[i])
       IN
        /\ IF conn[h.sink].wr # "run"
           THEN UNCHANGED conn
           ELSE /\ Len(conn[h.sink].q) < SinkCap
                /\ conn' = [conn EXCEPT ![h.sink].q =
                               Append(@, [ty |-> "PeerPresent", pk |-> h.pk])]
        /\ notifiers' = IF rest = <<>> THEN RemoveAt(notifiers, i)
                        ELSE [notifiers EXCEPT ![i] = rest]
        /\ owed' = owed \ {<<h.sink, h.pk>>}
        /\ UNCHANGED <<cfg, handshake, codec, meshkey, peers_sinks, mesh, cmdq, cloop, pending,
                       dialed, sent, nfail, lastSub>>

\* ---------------------------------------------------------- specifications
InitAll(c, mk, cd) ==
    /\ cfg = c
    /\ meshkey = mk
    /\ peers_sinks = [r \in Relays |-> NoDir]
    /\ mesh = [r \in Relays |-> NoDir]
    /\ cmdq = [r \in Relays |-> <<>>]
    /\ cloop = [r \in Relays |-> Idle]
    /\ conn = <<>>
    /\ notifiers = <<>>
    /\ pending = {}
    /\ dialed = {}
    /\ sent = {}
    /\ nfail = 0
    /\ lastSub = [relay |-> 0, pk |-> "", sink |-> NoSink, snap |-> {},
                  locals |-> {}, meshkeys |-> {}]
    /\ owed = {}
    /\ handshake = <<>>
    /\ codec = cd

InitWith(c, mk) == InitAll(c, mk, NoCodec)

\* One relay, with or without a mesh key and with one configured mesh peer;
\* every other party is outside the model and sends what it likes.
OneRelay ==
    [up |-> {1},
     peers |-> [r \in Relays |-> IF r = 1 THEN {0} ELSE {}],
     regs |-> {[relay |-> 1, pk |-> k, meshkey |-> NoKey] : k \in ClientKeys}
              \cup {[relay |-> 1, pk |-> "M", meshkey |-> m] : m \in {"k1", "k2"}},
     cframes |-> {[ty |-> "SendPacket", target |-> t, payload |-> 0] :
                     t \in {"A", "B", "H0"}}
                 \cup {[ty |-> "PeerPresent", pk |-> "B"],
                       [ty |-> "WatchConns"], [ty |-> "Other"],
                       [ty |-> "ForwardPacket", source |-> "X", target |-> "A",
                        payload |-> 0]},
     mframes |-> {[ty |-> "PeerPresent", pk |-> "B"], [ty |-> "Other"],
                  [ty |-> "ForwardPacket", source |-> "X", target |-> "A",
                   payload |-> 0]},
     maxConn |-> MaxConn, maxFrames |-> MaxFrames, maxFail |-> MaxFail]

Init ==
    \E k \in {NoKey, "k1"} :
        InitWith(OneRelay, [r \in Relays |-> IF r = 1 THEN k ELSE NoKey])

Next ==
    \/ EnvConnect
    \/ MeshDial
    \/ ReadEnv
    \/ \E r \in cfg.up : LoopRecv(r)
    \/ \E r \in cfg.up : LoopDispatch(r)
    \/ \E c \in Conns : WriterStep(c)
    \/ \E i \in DOMAIN notifiers : NotifierStep(i)

Spec == Init /\ [][Next]_vars

\* The tasks of Spec under the scheduling of the runtime: a task that can
\* take its next step takes it. The command loop, every writer and every
\* notifier is a tokio task; a socket write completes or fails.
FairSpec ==
    /\ Spec
    /\ \A r \in Relays : WF_vars(LoopRecv(r)) /\ WF_vars(LoopDispatch(r))
    /\ \A c \in 1..MaxConn : WF_vars(WriterStep(c))
    /\ \A i \in 1..MaxTasks : WF_vars(NotifierStep(i))

\* A relay without a mesh key and three plain clients that only send packets
\* to each other.
LocalRelay ==
    [up |-> {1},
     peers |-> [r \in Relays |-> {}],
     regs |-> {[relay |-> 1, pk |-> k, meshkey |-> NoKey] : k \in ClientKeys},
     cframes |-> {[ty |-> "SendPacket", target |-> t, payload |-> 0] :
                     t \in {"B", "M"}},
     mframes |-> {},
     maxConn |-> MaxConn, maxFrames |-> LocalMaxFrames, maxFail |-> MaxFail]

InitLocal == InitWith(LocalRelay, [r \in Relays |-> NoKey])

NextLocal ==
    \/ EnvConnect
    \/ ReadEnv
    \/ \E r \in cfg.up : LoopRecv(r)
    \/ \E r \in cfg.up : LoopDispatch(r)
    \/ \E c \in Conns : WriterStep(c)

SpecLocal == InitLocal /\ [][NextLocal]_vars

\* A relay without a mesh key and two plain clients whose sockets may close
\* or fail under the readers.
IoRelay ==
    [up |-> {1},
     peers |-> [r \in Relays |-> {}],
     regs |-> {[relay |-> 1, pk |-> k, meshkey |-> NoKey] : k \in {"A", "B"}},
     cframes |-> {[ty |-> "SendPacket", target |-> "B", payload |-> 0],
                  [ty |-> "Other"]},
     mframes |-> {},
     maxConn |-> IoMaxConn, maxFrames |-> IoMaxFrames, maxFail |-> IoMaxFail]

InitIo == InitWith(IoRelay, [r \in Relays |-> NoKey])

NextIo ==
    \/ EnvConnect
    \/ ReadEnv
    \/ ReadFault
    \/ \E r \in cfg.up : LoopRecv(r)
    \/ \E r \in cfg.up : LoopDispatch(r)
    \/ \E c \in Conns : WriterStep(c)

SpecIo == InitIo /\ [][NextIo]_vars

\* SpecIo under the scheduling of the runtime
FairIo ==
    /\ SpecIo
    /\ \A r \in Relays : WF_vars(LoopRecv(r)) /\ WF_vars(LoopDispatch(r))
    /\ \A c \in 1..IoMaxConn : WF_vars(WriterStep(c))

\* Two relays with the same mesh key, relay d configured with the other one
\* as its mesh peer; client A connects to relay 1 and client B to relay 2.
TwoRelays(d) ==
    [up |-> Relays,
     peers |-> [r \in Relays |-> IF r = d THEN Relays \ {d} ELSE {}],
     regs |-> {[relay |-> 1, pk |-> "A", meshkey |-> NoKey],
               [relay |-> 2, pk |-> "B", meshkey |-> NoKey]},
     cframes |-> {[ty |-> "SendPacket", target |-> "B", payload |-> 0]},
     mframes |-> {},
     maxConn |-> MeshMaxConn, maxFrames |-> MeshMaxFrames, maxFail |-> MeshMaxFail]

InitMesh == \E d \in Relays : InitWith(TwoRelays(d), [r \in Relays |-> "k1"])

NextMesh ==
    \/ EnvConnect
    \/ MeshDial
    \/ MeshAccept
    \/ ReadEnv
    \/ ReadWire
    \/ \E r \in cfg.up : LoopRecv(r)
    \/ \E r \in cfg.up : LoopDispatch(r)
    \/ \E c \in Conns : WriterStep(c)
    \/ \E i \in DOMAIN notifiers : NotifierStep(i)

SpecMesh == InitMesh /\ [][NextMesh]_vars

\* every spawned task of the two relays is scheduled again and again and
\* the sockets between the relays take what is written
FairMesh ==
    /\ SpecMesh
    /\ \A r \in Relays : WF_vars(LoopRecv(r)) /\ WF_vars(LoopDispatch(r))
    /\ \A c \in 1..MeshMaxConn : WF_vars(WriterStep(c))
    /\ \A i \in 1..MaxTasks : WF_vars(NotifierStep(i))
    /\ WF_vars(ReadWire)

\* Two relays with the same mesh key and the lists of mesh peers ps: one
\* relay dials the other, each is configured with the other, or relay 2 is
\* configured with two addresses of relay 1.  Client A connects to relay 1
\* and sends a packet to the key relay 2 dials with.
LoopMaxConn == 4
LoopMaxFrames == 1
LoopMaxFail == 0

LoopPeers == {<<{2}, {}>>, <<{}, {1}>>, <<{2}, {1}>>, <<{}, {1, 3}>>}

LoopRelays(ps) ==
    [up |-> Relays,
     peers |-> ps,
     regs |-> {[relay |-> 1, pk |-> "A", meshkey |-> NoKey]},
     cframes |-> {[ty |-> "SendPacket", target |-> "R2", payload |-> 0]},
     mframes |-> {},
     maxConn |-> LoopMaxConn, maxFrames |-> LoopMaxFrames, maxFail |-> LoopMaxFail]

InitLoop == \E ps \in LoopPeers : InitWith(LoopRelays(ps), [r \in Relays |-> "k1"])

NextLoop ==
    \/ EnvConnect
    \/ MeshDial
    \/ MeshDialRefused
    \/ MeshAccept
    \/ ReadEnv
    \/ ReadWire
    \/ \E r \in cfg.up : LoopRecv(r)
    \/ \E r \in cfg.up : LoopDispatch(r)
    \/ \E c \in Conns : WriterStep(c)
    \/ \E i \in DOMAIN notifiers : NotifierStep(i)

SpecLoop == InitLoop /\ [][NextLoop]_vars

\* A relay with mesh key k1, the mesh peer M and the plain clients A and B.
\* M may be slow: the socket of a mesh-capable connection may take no more
\* bytes, its writer then stays in write_all and stops draining its queue.
SlowRelay ==
    [up |-> {1},
     peers |-> [r \in Relays |-> {}],
     regs |-> {[relay |-> 1, pk |-> k, meshkey |-> NoKey] : k \in {"A", "B"}}
              \cup {[relay |-> 1, pk |-> "M", meshkey |-> "k1"]},
     cframes |-> {[ty |-> "SendPacket", target |-> t, payload |-> 0] :
                     t \in {"B", "M"}}
                 \cup {[ty |-> "WatchConns"]},
     mframes |-> {},
     maxConn |-> SlowMaxConn, maxFrames |-> SlowMaxFrames, maxFail |-> SlowMaxFail]

InitSlow == InitWith(SlowRelay, [r \in Relays |-> IF r = 1 THEN "k1" ELSE NoKey])

NextSlow ==
    \/ EnvConnect
    \/ ReadEnv
    \/ \E r \in cfg.up : LoopRecv(r)
    \/ \E r \in cfg.up : LoopDispatch(r)
    \/ \E c \in Conns : WriterStep(c)
    \/ \E i \in DOMAIN notifiers : NotifierStep(i)

SpecSlow == InitSlow /\ [][NextSlow]_vars

\* SpecSlow under the scheduling of the runtime; only the writer of a plain
\* connection is sure to get its bytes out
FairSlow ==
    /\ SpecSlow
    /\ \A r \in Relays : WF_vars(LoopRecv(r)) /\ WF_vars(LoopDispatch(r))
    /\ \A c \in 1..SlowMaxConn : WF_vars(WriterStep(c) /\ ~conn[c].can_mesh)
    /\ \A i \in 1..MaxTasks : WF_vars(NotifierStep(i))

\* -------------------------------------------------------------- handshake
\* everything but the handshakes and the codec
relayVars == <<cfg, meshkey, peers_sinks, mesh, cmdq, cloop, conn, notifiers,
               pending, dialed, sent, nfail, lastSub, owed>>

\* str::to_ascii_lowercase on the header values that occur
to_ascii_lowercase(v) ==
    CASE v = "WebSocket" -> "websocket"
      [] v = "Upgrade" -> "upgrade"
      [] OTHER -> v

\* validate_headers: every header named Upgrade or Connection must carry an
\* accepted value; a header of another name (the comparison is exact) is
\* passed over, and so is the absence of either header
validate_headers(headers) ==
    \A i \in DOMAIN headers :
        /\ headers[i].name = "Upgrade" =>
              to_ascii_lowercase(headers[i].value) \in {"websocket", "derp"}
        /\ headers[i].name = "Connection" =>
              to_ascii_lowercase(headers[i].value) = "upgrade"

\* rw.read(&mut buf) with len bytes waiting: as many as fit into the buffer
read(len, size) == IF len < size THEN len ELSE size

finalize_http_phase_noSize(req) ==
    IF req.status = "complete" /\ validate_headers(req.headers)
    THEN [ok |-> TRUE, out |-> <<[ty |-> "200 OK"]>>]
    ELSE [ok |-> FALSE, out |-> <<>>]

\* finalize_http_phase: one read, the two size checks, httparse, the header
\* check, and only then the 200 response
finalize_http_phase(req) ==
    LET n == read(req.len, UPGRADE_MSG_SIZE) IN
    IF /\ n > 0
       /\ n < UPGRADE_MSG_SIZE
       /\ req.status = "complete"
       /\ validate_headers(req.headers)
    THEN [ok |-> TRUE, out |-> <<[ty |-> "200 OK"]>>]
    ELSE [ok |-> FALSE, out |-> <<>>]

\* write_server_key: the key of the SecretKey::gen() of handshake i
write_server_key(i) == [ty |-> "ServerKey", key |-> i]

\* write_server_info: ServerInfo::default().frame()
write_server_info == [ty |-> "ServerInfo"]

\* FrameType::get_frame_type on the first byte of a buffer
get_frame_type(b) ==
    CASE b = 1 -> "ServerKey"
      [] b = 2 -> "ClientInfo"
      [] b = 3 -> "ServerInfo"
      [] b = 4 -> "SendPacket"
      [] b = 5 -> "RecvPacket"
      [] b = 9 -> "PeerPresent"
      [] b = 10 -> "ForwardPacket"
      [] b = 16 -> "WatchConns"
      [] OTHER -> "Unkonow"

\* serde_json::from_slice::<ClientInfoPayload>: both fields must be there,
\* version a u32 (none of the values drawn exceeds u32::MAX) and meshKey a
\* string; the value of version is not looked at
from_slice(j) ==
    IF {"version", "meshKey"} \subseteq j.fields /\ j.version >= 0
    THEN [ok |-> TRUE, version |-> j.version, meshkey |-> j.meshKey]
    ELSE [ok |-> FALSE]

\* ClientInfo::complete with the secret key of handshake i: the box opens
\* only when it was sealed for that key
complete(msg, i) ==
    IF msg.box # i THEN [ok |-> FALSE] ELSE from_slice(msg.json)

read_client_info_noDecrypt(msg, i) ==
    IF get_frame_type(msg.tag) # "ClientInfo" \/ ~msg.decodes
    THEN [ok |-> FALSE]
    ELSE [ok |-> TRUE, pk |-> msg.pk, meshkey |-> NoKey]

\* read_client_info: one read into a zeroed buffer, the frame type of its
\* first byte, Frame::<ClientInfo>::decode, complete; an empty meshKey is None
read_client_info(msg, i) ==
    IF get_frame_type(msg.tag) # "ClientInfo" \/ ~msg.decodes
    THEN [ok |-> FALSE]
    ELSE LET info == complete(msg, i) IN
         IF ~info.ok THEN [ok |-> FALSE]
         ELSE [ok |-> TRUE, pk |-> msg.pk,
               meshkey |-> IF info.meshkey = "" THEN NoKey ELSE info.meshkey]

NoReq == [len |-> -1, status |-> "none", headers |-> <<>>]
NoMsg == [tag |-> -1, decodes |-> FALSE, box |-> 0, pk |-> "", json |-> [fields |-> {}]]

\* the header lists of the requests that arrive
HeaderLists ==
    LET U == {<<[name |-> "Upgrade", value |-> v]>> : v \in {"WebSocket", "derp", "h2c"}}
        C == {<<[name |-> "Connection", value |-> v]>> : v \in {"Upgrade", "close"}}
    IN  {<<>>, <<[name |-> "upgrade", value |-> "h2c"]>>}
        \cup U \cup C \cup {u \o c : u \in U, c \in C}

\* what the first read may find: nothing (the peer closed), a request, or
\* more than the buffer holds
Requests ==
    [len : {0, 100, UPGRADE_MSG_SIZE, UPGRADE_MSG_SIZE + 1},
     status : {"complete", "error"},
     headers : HeaderLists]

\* the JSON documents a ClientInfo box may hold
Jsons ==
    [fields : {{"version", "meshKey"}}, version : {2, 3}, meshKey : {"", "k1"}]
    \cup {[fields |-> {"version"}, version |-> 2, meshKey |-> ""],
          [fields |-> {"meshKey"}, version |-> 2, meshKey |-> ""],
          [fields |-> {"version", "meshKey"}, version |-> -1, meshKey |-> ""]}

\* what the second read of handshake i may find: nothing (tag 0 of the
\* zeroed buffer), a frame of another type, a ClientInfo frame cut short, or
\* a whole ClientInfo sealed for the key of handshake i or for another key
Messages(i) ==
    {[NoMsg EXCEPT !.tag = t] : t \in {0, 4}}
    \cup {[NoMsg EXCEPT !.tag = 2]}
    \cup [tag : {2}, decodes : {TRUE}, box : {0, i}, pk : {"A"}, json : Jsons]

\* Service::run: listener.accept() and the spawn of handle_client
Accept ==
    /\ Len(handshake) < cfg.maxConn
    /\ \E r \in cfg.up :
          handshake' = Append(handshake,
              [relay |-> r, phase |-> "http", out |-> <<>>, req |-> NoReq,
               msg |-> NoMsg, client |-> 0])
    /\ UNCHANGED <<relayVars, codec>>

\* handle_handshake up to its second read: finalize_http_phase and
\* write_server_key
HandshakeHttp(i) ==
    /\ handshake[i].phase = "http"
    /\ \E req \in Requests :
          LET res == finalize_http_phase(req) IN
          handshake' = [handshake EXCEPT ![i] =
              [@ EXCEPT !.req = req,
                        !.phase = IF res.ok THEN "info" ELSE "failed",
                        !.out = IF res.ok
                                THEN res.out \o <<write_server_key(i)>>
                                ELSE res.out]]
    /\ UNCHANGED <<relayVars, codec>>

\* the rest of handle_client: read_client_info, write_server_info and
\* add_new_client under the write lock
HandshakeInfo(i) ==
    /\ handshake[i].phase = "info"
    /\ \E msg \in Messages(i) :
          LET res == read_client_info(msg, i) IN
          IF res.ok
          THEN /\ handshake' = [handshake EXCEPT ![i] =
                     [@ EXCEPT !.msg = msg, !.phase = "done",
                               !.out = Append(@, write_server_info),
                               !.client = Len(conn) + 1]]
               /\ add_new_client(handshake[i].relay, res.pk, res.meshkey, 0)
               /\ UNCHANGED pending
          ELSE /\ handshake' = [handshake EXCEPT ![i] =
                     [@ EXCEPT !.msg = msg, !.phase = "failed"]]
               /\ UNCHANGED <<relayVars, codec>>

\* A relay with mesh key k1 whose accepted sockets go through the handshake
HsRelay ==
    [up |-> {1},
     peers |-> [r \in Relays |-> {}],
     regs |-> {}, cframes |-> {}, mframes |-> {},
     maxConn |-> HsMaxConn, maxFrames |-> 0, maxFail |-> 0]

InitHs == InitWith(HsRelay, [r \in Relays |-> IF r = 1 THEN "k1" ELSE NoKey])

NextHs ==
    \/ Accept
    \/ \E i \in DOMAIN handshake : HandshakeHttp(i)
    \/ \E i \in DOMAIN handshake : HandshakeInfo(i)

SpecHs == InitHs /\ [][NextHs]_vars

\* ------------------------------------------------------------------ codec
\* `DERP` and a key, the prefix of the ServerKey body
MAGIC == <<68, 69, 82, 80, 240, 159, 148, 145>>

\* the #[tag(..)] of each FrameType that has a body type
FrameTag(ty) ==
    CASE ty = "ServerKey" -> 1
      [] ty = "ClientInfo" -> 2
      [] ty = "ServerInfo" -> 3
      [] ty = "SendPacket" -> 4
      [] ty = "RecvPacket" -> 5
      [] ty = "PeerPresent" -> 9
      [] ty = "ForwardPacket" -> 10
      [] ty = "WatchConns" -> 16

\* the fields of the body of each frame, in the order of the struct: the
\* length of a byte array, -1 for a Vec<u8>
Fields(ty) ==
    CASE ty = "ServerKey" -> <<8, 32>>
      [] ty = "ClientInfo" -> <<32, 24, -1>>
      [] ty = "ServerInfo" -> <<-1>>
      [] ty = "SendPacket" -> <<32, -1>>
      [] ty = "RecvPacket" -> <<32, -1>>
      [] ty = "PeerPresent" -> <<32>>
      [] ty = "ForwardPacket" -> <<32, 32, -1>>
      [] ty = "WatchConns" -> <<-1>>

\* Encode for u32: to_be_bytes
u32_encode(n) ==
    <<(n \div 16777216) % 256, (n \div 65536) % 256, (n \div 256) % 256, n % 256>>

\* derived Encode of a struct: the fields one after the other; a byte array
\* and a Vec<u8> both put their bytes as they are
RECURSIVE encode_fields(_)
encode_fields(vals) ==
    IF vals = <<>> THEN <<>> ELSE Head(vals) \o encode_fields(Tail(vals))

\* Vec<u8>::later_fill: len zero bytes, then what the callback writes
later_fill(len, written) == [i \in 1..len |-> 0] \o written

SizeWrapper_encode_noPatch(body) == later_fill(4, body)

\* Encode for SizeWrapper<u32, T>: four bytes are reserved, the body is
\* written behind them and its length then put into the reserved bytes
SizeWrapper_encode(body) ==
    LET buf == later_fill(4, body)
        size == u32_encode(Len(body))
    IN  [i \in 1..Len(buf) |-> IF i <= 4 THEN size[i] ELSE buf[i]]

\* Encode for Frame<T>: the tag of frame_type, then the wrapped body
Frame_encode(f) ==
    <<FrameTag(f.frame_type)>> \o SizeWrapper_encode(encode_fields(f.inner))

\* ReadBuffer::fill_buf of &[u8]
fill_buf(buf, size) ==
    IF Len(buf) < size
    THEN [ok |-> FALSE]
    ELSE [ok |-> TRUE, val |-> SubSeq(buf, 1, size),
          left |-> SubSeq(buf, size + 1, Len(buf))]

u32_decode_le(buf) ==
    LET r == fill_buf(buf, 4) IN
    IF ~r.ok THEN [ok |-> FALSE]
    ELSE [ok |-> TRUE, left |-> r.left,
          val |-> r.val[4] * 16777216 + r.val[3] * 65536 + r.val[2] * 256 + r.val[1]]

\* Decode for u32: big endian
u32_decode(buf) ==
    LET r == fill_buf(buf, 4) IN
    IF ~r.ok THEN [ok |-> FALSE]
    ELSE [ok |-> TRUE, left |-> r.left,
          val |-> r.val[1] * 16777216 + r.val[2] * 65536 + r.val[3] * 256 + r.val[4]]

\* derived Decode of FrameType: one byte, an unknown tag is kept as Unkonow
FrameType_decode(buf) ==
    LET r == fill_buf(buf, 1) IN
    IF ~r.ok THEN [ok |-> FALSE]
    ELSE [ok |-> TRUE, val |-> get_frame_type(r.val[1]), left |-> r.left]

\* derived Decode of a struct: the fields one after the other; a byte array
\* takes its length (fill_buf), a Vec<u8> all that is left
RECURSIVE decode_fields(_, _, _)
decode_fields(fs, buf, acc) ==
    IF fs = <<>> THEN [ok |-> TRUE, val |-> acc, left |-> buf]
    ELSE IF Head(fs) < 0
         THEN decode_fields(Tail(fs), <<>>, Append(acc, buf))
         ELSE LET r == fill_buf(buf, Head(fs)) IN
              IF ~r.ok THEN [ok |-> FALSE]
              ELSE decode_fields(Tail(fs), r.left, Append(acc, r.val))

SizeWrapper_decode_noCheck(ty, buf) ==
    LET size == u32_decode(buf) IN
    IF ~size.ok THEN [ok |-> FALSE]
    ELSE LET left == fill_buf(size.left, size.val) IN
         IF ~left.ok THEN [ok |-> FALSE]
         ELSE LET value == decode_fields(Fields(ty), left.val, <<>>) IN
              IF ~value.ok THEN [ok |-> FALSE]
              ELSE [ok |-> TRUE, val |-> value.val, left |-> left.left]

\* Decode for SizeWrapper<u32, T>: the size, that many bytes, T out of them,
\* and an error unless T used them up
SizeWrapper_decode(ty, buf) ==
    LET size == u32_decode(buf) IN
    IF ~size.ok THEN [ok |-> FALSE]
    ELSE LET left == fill_buf(size.left, size.val) IN
         IF ~left.ok THEN [ok |-> FALSE]
         ELSE LET value == decode_fields(Fields(ty), left.val, <<>>) IN
              IF ~value.ok THEN [ok |-> FALSE]
              ELSE IF value.left = <<>>
                   THEN [ok |-> TRUE, val |-> value.val, left |-> left.left]
                   ELSE [ok |-> FALSE]

\* Frame::<T>::decode for the body type T of frame type ty
Frame_decode(ty, buf) ==
    LET t == FrameType_decode(buf) IN
    IF ~t.ok THEN [ok |-> FALSE]
    ELSE LET inner == SizeWrapper_decode(ty, t.left) IN
         IF ~inner.ok THEN [ok |-> FALSE]
         ELSE [ok |-> TRUE, frame |-> [frame_type |-> t.val, inner |-> inner.val]]

\* Header::decode: frame type and size
Header_decode(buf) ==
    LET t == FrameType_decode(buf) IN
    IF ~t.ok THEN [ok |-> FALSE]
    ELSE LET size == u32_decode(t.left) IN
         IF ~size.ok THEN [ok |-> FALSE]
         ELSE [ok |-> TRUE, frame_type |-> t.val, size |-> size.val]

next_message_headerOnly(data) ==
    IF Len(data) < HEADER_SIZE
    THEN [kind |-> "InsufficientData", data |-> data, buffer |-> <<>>, ty |-> "none"]
    ELSE LET header == Header_decode(SubSeq(data, 1, HEADER_SIZE)) IN
         IF ~header.ok
         THEN [kind |-> "Err", data |-> data, buffer |-> <<>>, ty |-> "none"]
         ELSE [kind |-> "Message", ty |-> header.frame_type,
               buffer |-> data, data |-> <<>>]

\* InputBuffer::next_message: nothing below a whole header; a message, taken
\* off the front of the buffer, once header and body are there
next_message(data) ==
    IF Len(data) < HEADER_SIZE
    THEN [kind |-> "InsufficientData", data |-> data, buffer |-> <<>>, ty |-> "none"]
    ELSE LET header == Header_decode(SubSeq(data, 1, HEADER_SIZE))
             message_size == HEADER_SIZE + header.size
         IN  IF ~header.ok
             THEN [kind |-> "Err", data |-> data, buffer |-> <<>>, ty |-> "none"]
             ELSE IF Len(data) >= message_size
                  THEN [kind |-> "Message", ty |-> header.frame_type,
                        buffer |-> SubSeq(data, 1, message_size),
                        data |-> SubSeq(data, message_size + 1, Len(data))]
                  ELSE [kind |-> "InsufficientData", data |-> data,
                        buffer |-> <<>>, ty |-> "none"]

\* the keys, nonces and byte strings the frames are made of
KeyBytes == {[i \in 1..32 |-> b] : b \in {0, 5}} \cup {[i \in 1..32 |-> i]}
Nonces == {[i \in 1..24 |-> 2]}
RECURSIVE BytesUpTo(_)
BytesUpTo(n) ==
    IF n = 0 THEN {<<>>}
    ELSE BytesUpTo(n - 1)
         \cup {Append(p, b) : p \in {q \in BytesUpTo(n - 1) : Len(q) = n - 1},
                              b \in 0..MaxByte}
Payloads == BytesUpTo(MaxPayload)

\* the frames of the eight types that have a body type
Frames ==
    {[frame_type |-> "ServerKey", inner |-> <<MAGIC, k>>] : k \in KeyBytes}
    \cup {[frame_type |-> "ClientInfo", inner |-> <<k, n, <<12, 12>>>>] :
             k \in KeyBytes, n \in Nonces}
    \cup {[frame_type |-> ty, inner |-> <<d>>] :
             ty \in {"ServerInfo", "WatchConns"}, d \in BytesUpTo(1)}
    \cup {[frame_type |-> ty, inner |-> <<k, p>>] :
             ty \in {"SendPacket", "RecvPacket"}, k \in KeyBytes, p \in Payloads}
    \cup {[frame_type |-> "PeerPresent", inner |-> <<k>>] : k \in KeyBytes}
    \cup {[frame_type |-> "ForwardPacket", inner |-> <<k, [i \in 1..32 |-> 5], p>>] :
             k \in KeyBytes, p \in BytesUpTo(1)}

\* what may become of a frame on its way: the last byte is lost, or the
\* declared length is one more (with one more byte there) or one less
Tampers == {"cut", "more", "less"}
TamperWire(w, t) ==
    CASE t = "cut" -> SubSeq(w, 1, Len(w) - 1)
      [] t = "more" -> [Append(w, 0) EXCEPT ![HEADER_SIZE] = @ + 1]
      [] t = "less" -> [w EXCEPT ![HEADER_SIZE] = IF @ > 0 THEN @ - 1 ELSE @]

\* frame.encode(&mut buf) at the sender; the receiver's get_next_message
\* starts with next_message on its empty buffer
EncodeFrame ==
    /\ codec.stage = "frame"
    /\ codec' = [codec EXCEPT !.stage = "wire",
                              !.wire = Frame_encode(codec.frame),
                              !.last = next_message(<<>>).kind]
    /\ UNCHANGED <<relayVars, handshake>>

\* one turn of DerpReader::get_next_message: the read returns the next k
\* bytes of the wire, input_data appends them, next_message looks again
InputData ==
    /\ codec.stage = "wire"
    /\ codec.tamper = "none"
    /\ \E k \in 1..(Len(codec.wire) - codec.fed) :
          LET res == next_message(
                        codec.data \o SubSeq(codec.wire, codec.fed + 1, codec.fed + k))
          IN  codec' = [codec EXCEPT
                  !.fed = @ + k,
                  !.data = res.data,
                  !.last = res.kind,
                  !.partial = @ \/ res.kind = "InsufficientData",
                  !.message = res.buffer,
                  !.ty = res.ty,
                  !.stage = IF res.kind = "Message" THEN "message"
                            ELSE IF res.kind = "Err" THEN "failed" ELSE @]
    /\ UNCHANGED <<relayVars, handshake>>

\* Frame::<T>::decode of the bytes at hand: the message next_message
\* returned, or the sender's buffer as it is
DecodeFrame ==
    /\ codec.stage = "message" \/ (codec.stage = "wire" /\ codec.fed = 0)
    /\ codec' = [codec EXCEPT
          !.stage = "decoded",
          !.decoded = Frame_decode(codec.frame.frame_type,
                         IF codec.stage = "message" THEN codec.message ELSE codec.wire)]
    /\ UNCHANGED <<relayVars, handshake>>

\* Frame::<T>::decode of bytes that are not what the encoder wrote
DecodeTampered ==
    /\ codec.stage = "wire"
    /\ codec.fed = 0
    /\ codec.tamper = "none"
    /\ \E t \in Tampers :
          LET w == TamperWire(codec.wire, t) IN
          codec' = [codec EXCEPT
              !.stage = "decoded", !.tamper = t, !.wire = w,
              !.decoded = Frame_decode(codec.frame.frame_type, w)]
    /\ UNCHANGED <<relayVars, handshake>>

\* no relay: a frame goes from an encoder to a decoder
NoRelay ==
    [up |-> {}, peers |-> [r \in Relays |-> {}],
     regs |-> {}, cframes |-> {}, mframes |-> {},
     maxConn |-> 0, maxFrames |-> 0, maxFail |-> 0]

InitCodec ==
    \E f \in Frames :
        InitAll(NoRelay, [r \in Relays |-> NoKey],
                [NoCodec EXCEPT !.stage = "frame", !.frame = f])

NextCodec ==
    \/ EncodeFrame
    \/ InputData
    \/ DecodeFrame
    \/ DecodeTampered

SpecCodec == InitCodec /\ [][NextCodec]_vars

\* --------------------------------------------------------- frame streams
\* a peer writes several frames one after the other; the reads of the
\* receiver's DerpReader cut the byte stream wherever they like
MaxStream == 3

StreamFrames ==
    {f \in Frames : f.frame_type \in {"WatchConns", "PeerPresent"}}
    \cup {f \in Frames : /\ f.frame_type = "SendPacket"
                         /\ f.inner[1] = [i \in 1..32 |-> 0]
                         /\ Len(f.inner[2]) <= 1}
StreamSeqs == UNION {[1..n -> StreamFrames] : n \in 1..MaxStream}

RECURSIVE Flatten(_)
Flatten(ss) == IF ss = <<>> THEN <<>> ELSE Head(ss) \o Flatten(Tail(ss))

input_data_replace(data, new) == new

\* InputBuffer::input_data
input_data(data, new) == data \o new

\* DerpReader::get_next_message, top of the loop: next_message on what the
\* buffer holds; a message is returned to the caller, who calls again
StreamNextMessage ==
    /\ codec.stage = "stream"
    /\ codec.pos = "next"
    /\ LET res == next_message(codec.data) IN
       codec' = [codec EXCEPT
           !.data = res.data,
           !.pos = CASE res.kind = "Message" -> "next"
                     [] res.kind = "InsufficientData" -> "read"
                     [] OTHER -> "failed",
           !.got = IF res.kind = "Message" THEN Append(@, res.buffer) ELSE @,
           !.split = @ \/ (res.kind = "InsufficientData" /\ codec.data # <<>>),
           !.burst = IF res.kind = "Message" THEN @ + 1 ELSE @]
    /\ UNCHANGED <<relayVars, handshake>>

\* DerpReader::get_next_message, InsufficientData arm: the read returns the
\* next k bytes of the stream and input_data appends them
StreamRead ==
    /\ codec.stage = "stream"
    /\ codec.pos = "read"
    /\ \E k \in 1..(Len(codec.wire) - codec.fed) :
          codec' = [codec EXCEPT
              !.fed = @ + k,
              !.data = input_data(@, SubSeq(codec.wire, codec.fed + 1, codec.fed + k)),
              !.pos = "next",
              !.burst = 0]
    /\ UNCHANGED <<relayVars, handshake>>

InitStream ==
    \E fs \in StreamSeqs :
        InitAll(NoRelay, [r \in Relays |-> NoKey],
                [stage |-> "stream", frames |-> fs,
                 wire |-> Flatten([i \in 1..Len(fs) |-> Frame_encode(fs[i])]),
                 data |-> <<>>, fed |-> 0, pos |-> "next", got |-> <<>>,
                 split |-> FALSE, burst |-> 0])

NextStream ==
    \/ StreamNextMessage
    \/ StreamRead

SpecStream == InitStream /\ [][NextStream]_vars

\* ------------------------------------------------------------------ claims
\* what the claims speak of
HasPayload(f) == f.ty \in {"SendPacket", "RecvPacket", "ForwardPacket"}
\* the places of connection c's wire where a frame of type ty carries payload p
Written(c, ty, p) ==
    {i \in DOMAIN conn[c].out :
        conn[c].out[i].frame.ty = ty /\ conn[c].out[i].frame.payload = p}
\* any frame with payload p on connection c's wire
AnyWritten(c, p) ==
    {i \in DOMAIN conn[c].out :
        HasPayload(conn[c].out[i].frame) /\ conn[c].out[i].frame.payload = p}
\* nothing is in flight inside the relays: every command was consumed and
\* every queued frame was written or lost with its writer
Quiescent ==
    /\ \A r \in Relays : cmdq[r] = <<>> /\ cloop[r].st # "send"
    /\ \A c \in Conns : conn[c].q = <<>> \/ conn[c].wr # "run"
    /\ notifiers = <<>>
\* the connections admitted on relay r with key k
Admitted(r, k) ==
    {c \in Conns : conn[c].kind = "client" /\ conn[c].relay = r /\ conn[c].pk = k}
Newest(r, k) == CHOOSE c \in Admitted(r, k) : \A d \in Admitted(r, k) : d <= c
\* this step is the command loop of relay r taking the next command
LoopTakes(r) ==
    cloop[r].st = "recv" /\ cmdq[r] # <<>> /\ cmdq'[r] # cmdq[r]

\* C1: when A and B are registered on one relay and their writers are alive,
\* every SendPacket{target=B} read from A's connection has, once the relay
\* has nothing left in flight, put exactly one RecvPacket on B's connection
\* and no frame on any other connection.
C1_LocalDelivery ==
    Quiescent =>
        \A e \in sent :
            LET a == e.conn
                b == e.route
            IN  ( /\ e.frame.ty = "SendPacket"
                  /\ a # b
                  /\ e.reg
                  /\ b # NoSink
                  /\ conn[b].pk = e.frame.target
                  /\ conn[b].relay = conn[a].relay
                  /\ peers_sinks[conn[a].relay][e.frame.target] = b
                  /\ conn[a].wr = "run"
                  /\ conn[b].wr = "run" )
                => /\ Cardinality(Written(b, "RecvPacket", e.frame.payload)) = 1
                   /\ \A c \in Conns \ {b} : AnyWritten(c, e.frame.payload) = {}

\* C2: the RecvPacket a writer emits for a Deliver whose dst is its own key
\* carries the sender's key, then the payload unchanged.
C2_RecvPacketCarriesSource ==
    \A c \in Conns : \A i \in DOMAIN conn[c].out :
        LET e == conn[c].out[i] IN
        (e.cmd.ty = "SendPacket" /\ e.cmd.target = conn[c].pk)
            => e.frame = [ty |-> "RecvPacket", key |-> e.cmd.source,
                          payload |-> e.cmd.payload]

\* nothing is in flight between the relays either
QuiescentWire ==
    /\ Quiescent
    /\ pending = {}
    /\ \A c \in Conns :
          (conn[c].peer > 0 /\ conn[c].rd = "run")
              => conn[c].nread = Len(conn[conn[c].peer].out)

\* C3: A is on relay R1, B on relay R2, R1's entry for B is a pseudo-entry
\* learned from a PeerPresent of R2 and no socket write has failed. Once
\* nothing is left in flight, a SendPacket{target=B} read from A has put
\* exactly one ForwardPacket{A, B, payload} on the connection R1 -> R2 and
\* exactly one RecvPacket{A, payload} on B's connection, and nothing else.
C3_MeshForwarding ==
    QuiescentWire =>
        \A e \in sent :
            LET a == e.conn
                s == e.route
                r1 == conn[a].relay
                k == e.frame.target
                p == e.frame.payload
            IN  ( /\ e.frame.ty = "SendPacket"
                  /\ e.reg
                  /\ s # NoSink
                  /\ conn[s].pk # k
                  /\ conn[s].peer > 0
                  /\ conn[conn[s].peer].relay # r1
                  /\ Admitted(conn[conn[s].peer].relay, k) # {}
                  /\ nfail = 0 )
                => LET b == Newest(conn[conn[s].peer].relay, k) IN
                   /\ Cardinality(Written(s, "ForwardPacket", p)) = 1
                   /\ \A i \in Written(s, "ForwardPacket", p) :
                         conn[s].out[i].frame =
                            [ty |-> "ForwardPacket", source |-> conn[a].pk,
                             target |-> k, payload |-> p]
                   /\ Cardinality(Written(b, "RecvPacket", p)) = 1
                   /\ \A i \in Written(b, "RecvPacket", p) :
                         conn[b].out[i].frame =
                            [ty |-> "RecvPacket", key |-> conn[a].pk, payload |-> p]
                   /\ \A c \in Conns \ {s, b} : AnyWritten(c, p) = {}

\* C4: a Send whose destination is in neither directory writes no frame,
\* reports nothing to the sender, leaves both directories as they are, and
\* the command loop goes on with the next command.
C4_NoOutput ==
    \A e \in sent :
        LET r == conn[e.conn].relay IN
        ( /\ e.frame.ty = "SendPacket"
          /\ peers_sinks[r][e.frame.target] = NoSink
          /\ mesh[r][e.frame.target] = NoSink )
        => /\ \A c \in Conns : AnyWritten(c, e.frame.payload) = {}
           /\ \A c \in Conns : \A i \in DOMAIN conn[c].q :
                 conn[c].q[i].ty = "SendPacket" => conn[c].q[i].payload # e.frame.payload
           /\ \A q \in Relays : cloop[q].st = "send" => cloop[q].cmd.payload # e.frame.payload
C4_Step ==
    \A r \in Relays :
        ( /\ LoopTakes(r)
          /\ Head(cmdq[r]).ty = "SendPacket"
          /\ peers_sinks[r][Head(cmdq[r]).target] = NoSink
          /\ mesh[r][Head(cmdq[r]).target] = NoSink )
        => /\ cloop'[r] = Idle
           /\ UNCHANGED <<peers_sinks, mesh, conn, notifiers>>
C4_UnknownDestination == []C4_NoOutput /\ [][C4_Step]_vars
\* a miss was processed and a later packet of the same sender was delivered
C4_Witness ==
    \E e \in sent, e2 \in sent :
        /\ e.conn = e2.conn /\ e.n < e2.n
        /\ e.frame.ty = "SendPacket" /\ e2.frame.ty = "SendPacket"
        /\ peers_sinks[1][e.frame.target] = NoSink
        /\ mesh[1][e.frame.target] = NoSink
        /\ \E c \in Conns : Written(c, "RecvPacket", e2.frame.payload) # {}

\* C5: the command loop ends only on Stop or when its channel closes; a
\* dispatch to a sink whose writer has exited does not end it.
C5_LoopSurvivesDeadSink == \A r \in Relays : cloop[r].st # "failed"

\* C6: the admission matrix of add_new_client, server key s against the key
\* c the client presented.
C6_AdmissionMatrix ==
    \A n \in Conns :
        LET s == meshkey[conn[n].relay]
            c == conn[n].mk
            admitted == /\ conn[n].kind = "client"
                        /\ peers_sinks[conn[n].relay][conn[n].pk] # NoSink
            rejected == /\ conn[n].kind = "rejected"
                        /\ \A r \in Relays, k \in Keys :
                              peers_sinks[r][k] # n /\ mesh[r][k] # n
        IN  conn[n].kind \in {"client", "rejected"} =>
            /\ (s = NoKey /\ c = NoKey) => (admitted /\ ~conn[n].can_mesh)
            /\ (s = NoKey /\ c # NoKey) => rejected
            /\ (s # NoKey /\ c = NoKey) => (admitted /\ ~conn[n].can_mesh)
            /\ (s # NoKey /\ c = s) => (admitted /\ conn[n].can_mesh)
            /\ (s # NoKey /\ c # NoKey /\ c # s) => rejected
\* a mesh peer was admitted, a plain client too, and a wrong key was turned away
C6_Witness ==
    \E a \in Conns, b \in Conns, c \in Conns :
        /\ conn[a].kind = "client" /\ conn[a].can_mesh
        /\ conn[b].kind = "client" /\ ~conn[b].can_mesh
        /\ conn[c].kind = "rejected" /\ conn[c].mk # NoKey

\* C7: the snapshot taken for a Subscribe from P holds exactly the keys of
\* the local clients that are not mesh peers; keys that are not local clients
\* are not announced.
C7_FloodIsLocalClients ==
    lastSub.relay # 0 => lastSub.snap = lastSub.locals \ lastSub.meshkeys

\* C8: after a client with key K is admitted, PeerPresent{K} is eventually
\* enqueued on the sink of every entry the mesh directory had at that moment
\* (unless that entry's writer has exited), and the admission step itself
\* enqueues nothing.
\* owed holds the pairs (sink, K) still due; whenever a pair is due, a
\* moment comes at which none is, so every single pair is settled.
C8_Eventually == (owed # {}) ~> (owed = {})
C8_Step ==
    (Len(conn') > Len(conn) /\ conn'[Len(conn')].kind = "client")
        => \A c \in Conns : conn'[c].q = conn[c].q
C8_FanOut == C8_Eventually /\ [][C8_Step]_vars
\* a client was admitted while the queue of a mesh entry was full: the
\* announcement is still due and the writer of that entry is alive
C8_Witness ==
    \E p \in owed :
        /\ Len(conn[p[1]].q) = SinkCap
        /\ conn[p[1]].wr = "run"
        /\ \E k \in Keys : mesh[1][k] = p[1]
        /\ Admitted(1, p[2]) # {}

\* C9: a second connection admitted with key K overwrites the entry of K,
\* and every Send to K taken up afterwards is dispatched to the sink of the
\* newest connection only.
C9_Entry ==
    \A r \in Relays, k \in Keys :
        Admitted(r, k) # {} => peers_sinks[r][k] = Newest(r, k)
C9_Step ==
    /\ \A r \in Relays :
          ( /\ LoopTakes(r)
            /\ Head(cmdq[r]).ty = "SendPacket"
            /\ Admitted(r, Head(cmdq[r]).target) # {} )
          => /\ cloop'[r].st = "send"
             /\ cloop'[r].sink = Newest(r, Head(cmdq[r]).target)
             /\ cloop'[r].cmd = Head(cmdq[r])
    /\ \A c \in Conns :
          ( /\ Len(conn'[c].q) > Len(conn[c].q)
            /\ conn'[c].q[Len(conn'[c].q)].ty = "SendPacket" )
          => /\ cloop[conn[c].relay].st = "send"
             /\ cloop[conn[c].relay].sink = c
             /\ cloop[conn[c].relay].cmd = conn'[c].q[Len(conn'[c].q)]
C9_NewestConnectionRoutes == []C9_Entry /\ [][C9_Step]_vars
\* a packet for a key admitted twice sits in the queue of the newer connection
C9_Witness ==
    \E c \in Conns, d \in Conns :
        /\ c < d
        /\ conn[c].kind = "client" /\ conn[d].kind = "client"
        /\ conn[c].pk = conn[d].pk /\ conn[c].relay = conn[d].relay
        /\ conn[d].q # <<>>
        /\ Head(conn[d].q).ty = "SendPacket"
        /\ Head(conn[d].q).target = conn[d].pk

\* C10: processing PeerPresent{key, sink} inserts (key, sink) into the
\* clients directory only if key has no entry; an existing entry, of a local
\* client or of an earlier PeerPresent, is left as it is.
C10_Step ==
    \A r \in Relays :
        (LoopTakes(r) /\ Head(cmdq[r]).ty = "PeerPresent")
        => LET k == Head(cmdq[r]).pk
               s == Head(cmdq[r]).sink
           IN  /\ peers_sinks[r][k] = NoSink
                    => peers_sinks'[r] = [peers_sinks[r] EXCEPT ![k] = s]
               /\ peers_sinks[r][k] # NoSink => peers_sinks'[r] = peers_sinks[r]
               /\ mesh' = mesh
C10_PeerPresentKeepsRoute == [][C10_Step]_vars
\* a connection announced the key of a local client registered before it;
\* the announcement was processed and the route is still the local client
C10_Witness ==
    \E e \in sent :
        /\ e.frame.ty = "PeerPresent"
        /\ cmdq[1] = <<>> /\ cloop[1].st = "recv"
        /\ peers_sinks[1][e.frame.pk] # NoSink
        /\ peers_sinks[1][e.frame.pk] < e.conn
        /\ conn[peers_sinks[1][e.frame.pk]].pk = e.frame.pk

\* C11: a Send whose destination is absent from the clients directory but
\* present in the mesh directory is dispatched to the sink of that mesh
\* entry; it is dropped only when the key is in neither directory.
C11_Step ==
    \A r \in Relays :
        ( /\ LoopTakes(r)
          /\ Head(cmdq[r]).ty = "SendPacket"
          /\ peers_sinks[r][Head(cmdq[r]).target] = NoSink
          /\ mesh[r][Head(cmdq[r]).target] # NoSink )
        => /\ cloop'[r].st = "send"
           /\ cloop'[r].sink = mesh[r][Head(cmdq[r]).target]
C11_MeshFallback == [][C11_Step]_vars

\* C12: in every reachable state the key sets of the clients directory and
\* of the mesh directory of a relay are disjoint.
C12_DirectoriesDisjoint ==
    \A r \in Relays : KeysOf(peers_sinks[r]) \cap KeysOf(mesh[r]) = {}

\* C13: once the reader of a connection admitted with can_mesh = false has
\* received a WatchConns frame it is no longer running and has read no frame
\* after that one.
C13_WatchConnsEndsPlainClient ==
    \A e \in sent :
        (e.frame.ty = "WatchConns" /\ ~conn[e.conn].can_mesh)
            => /\ conn[e.conn].rd # "run"
               /\ conn[e.conn].nread = e.n

\* C14: the queue in front of the writer of a connection with
\* can_mesh = false never holds a packet whose target is not the key of
\* that connection.
C14_PlainWriterGetsOwnPackets ==
    \A c \in Conns :
        (conn[c].kind = "client" /\ ~conn[c].can_mesh)
            => \A i \in DOMAIN conn[c].q :
                  conn[c].q[i].ty = "SendPacket" => conn[c].q[i].target = conn[c].pk

\* C15: a PeerPresent{K} taken from a connection admitted with
\* can_mesh = false changes no directory.
C15_Step ==
    \A r \in Relays :
        ( /\ LoopTakes(r)
          /\ Head(cmdq[r]).ty = "PeerPresent"
          /\ ~conn[Head(cmdq[r]).sink].can_mesh )
        => UNCHANGED <<peers_sinks, mesh>>
C15_PlainPeerPresentIgnored == [][C15_Step]_vars

\* C16: the reader of an accepted connection of a mesh peer that received a
\* ForwardPacket while the command channel was open is still reading.
C16_InboundForwardPacket ==
    \A e \in sent :
        ( /\ e.frame.ty = "ForwardPacket"
          /\ conn[e.conn].kind = "client"
          /\ conn[e.conn].can_mesh
          /\ ~LoopDead(conn[e.conn].relay) )
        => conn[e.conn].rd = "run"

\* C18: a dispatch that finds the writer of its sink gone removes the entry
\* of the destination from the directory and the command loop goes on.
C18_Step ==
    \A r \in Relays :
        ( /\ cloop[r].st = "send"
          /\ conn[cloop[r].sink].wr # "run"
          /\ cloop'[r] # cloop[r] )
        => /\ peers_sinks'[r][cloop[r].cmd.target] = NoSink
           /\ cloop'[r] = Idle
C18_DeadEntryPruned == [][C18_Step]_vars

\* the state of the reader and of the writer of the c-th connection, once
\* it exists
RdOf(c) == IF c \in Conns THEN conn[c].rd ELSE "none"
WrOf(c) == IF c \in Conns THEN conn[c].wr ELSE "none"
KindOf(c) == IF c \in Conns THEN conn[c].kind ELSE "none"

\* C17: a frame of a type the reader does not route injects no command and
\* stops the reader, and the writer of that connection eventually exits.
C17_Step ==
    \A c \in Conns :
        ( /\ conn[c].rd = "run"
          /\ \E e \in sent' \ sent : e.conn = c /\ e.frame.ty = "Other" )
        => /\ cmdq' = cmdq
           /\ conn'[c].rd # "run"
C17_WriterFollows ==
    \A c \in 1..IoMaxConn :
        (c \in Conns /\ \E e \in sent : e.conn = c /\ e.frame.ty = "Other")
            ~> (WrOf(c) # "run")
C17_UnroutedFrameTerminates == [][C17_Step]_vars /\ C17_WriterFollows

\* C19: when the reader or the writer of a connection has exited on an
\* error, the other task of that connection eventually exits as well.
C19_TerminateTogether ==
    \A c \in 1..IoMaxConn :
        /\ (KindOf(c) = "client" /\ RdOf(c) = "exit") ~> (WrOf(c) # "run")
        /\ (KindOf(c) = "client" /\ WrOf(c) = "exit")
              ~> (RdOf(c) \in {"exit", "panic"})

\* C20: a reader whose socket read returned 0 bytes eventually terminates.
C20_EofEndsReader ==
    \A c \in 1..IoMaxConn : (RdOf(c) = "eof") ~> (RdOf(c) \in {"exit", "panic"})

\* ------------------------------------------------------------------ C21
\* the connection a payload was read from and its place on that connection
SrcConn(p) == p \div 10
SrcSeq(p) == p % 10

\* C21: the packets one connection sent come out on every connection in the
\* order they were read in: of two written frames that carry payloads of the
\* same source connection, the one written first was read first
C21_OrderKept ==
    \A b \in Conns : \A i, j \in DOMAIN conn[b].out :
        LET fi == conn[b].out[i].frame
            fj == conn[b].out[j].frame
        IN  (/\ i < j
             /\ HasPayload(fi) /\ HasPayload(fj)
             /\ SrcConn(fi.payload) = SrcConn(fj.payload))
            => SrcSeq(fi.payload) < SrcSeq(fj.payload)

\* A (plain) sent two packets to B on the same relay and B's connection
\* wrote both as RecvPacket
C21_Witness ==
    \E a, b \in Conns :
        /\ a # b /\ conn[a].relay = conn[b].relay
        /\ conn[a].kind = "client" /\ conn[b].kind = "client"
        /\ Len(conn[b].out) >= 2
        /\ conn[b].out[1].frame.ty = "RecvPacket"
        /\ conn[b].out[2].frame.ty = "RecvPacket"
        /\ conn[b].out[1].cmd.source = conn[a].pk
        /\ conn[b].out[2].cmd.source = conn[a].pk
        /\ conn[b].out[1].frame.payload = 10 * a + 1
        /\ conn[b].out[2].frame.payload = 10 * a + 2

\* ------------------------------------------------------------------ C22
\* the key k is that of a plain client registered on relay r
PlainLocal(r, k) ==
    /\ peers_sinks[r][k] # NoSink
    /\ ~conn[peers_sinks[r][k]].can_mesh

\* a SendPacket of one plain client to another waits in the command channel
PlainSendWaits(r) ==
    /\ cmdq[r] # <<>>
    /\ Head(cmdq[r]).ty = "SendPacket"
    /\ Head(cmdq[r]).source # Head(cmdq[r]).target
    /\ PlainLocal(r, Head(cmdq[r]).source)
    /\ PlainLocal(r, Head(cmdq[r]).target)

\* C22: a mesh peer whose writer stops draining its queue does not stall the
\* relay: a SendPacket between two other (plain) connections that waits in
\* the command channel is taken by the command loop
C22_RoutingGoesOn == PlainSendWaits(1) ~> (cmdq[1] = <<>>)

\* the other half of C22: a handshake that completes is admitted whatever
\* the queues hold
C22_AdmissionGoesOn == (Len(conn) < cfg.maxConn) => ENABLED EnvConnect

\* the command loop waits for room in the queue of a mesh peer while a
\* SendPacket between plain clients waits behind it
C22_Stalled ==
    /\ cloop[1].st = "send"
    /\ conn[cloop[1].sink].can_mesh
    /\ Len(conn[cloop[1].sink].q) = SinkCap
    /\ PlainSendWaits(1)

\* ------------------------------------------------------------------ C23
\* the frames a handshake writes when all goes well
FullHandshake(i) == <<[ty |-> "200 OK"], write_server_key(i), write_server_info>>

\* the second read of handshake i held a ClientInfo frame that decodes and
\* whose box opens with the key of the handshake
OpensClientInfo(i) ==
    /\ get_frame_type(handshake[i].msg.tag) = "ClientInfo"
    /\ handshake[i].msg.decodes
    /\ handshake[i].msg.box = i

\* C23: after the 200 response the server writes the ServerKey frame and
\* nothing else until the ClientInfo is in; ServerInfo follows only a
\* ClientInfo frame that decodes and decrypts, and is written when the
\* handshake succeeds
C23_HandshakeOrder ==
    \A i \in DOMAIN handshake :
        LET h == handshake[i] IN
        /\ h.phase = "http" => h.out = <<>>
        /\ h.phase = "info" => h.out = SubSeq(FullHandshake(i), 1, 2)
        /\ h.phase = "done" => h.out = FullHandshake(i) /\ OpensClientInfo(i)
        /\ h.phase = "failed" =>
              /\ h.out \in {<<>>, SubSeq(FullHandshake(i), 1, 2)}
              /\ h.out # <<>> => h.msg # NoMsg
        /\ ~OpensClientInfo(i) => write_server_info \notin {h.out[k] : k \in DOMAIN h.out}

\* one handshake ran to its end and one stopped after the ServerKey because
\* the box of its ClientInfo did not open
C23_Witness ==
    \E i, j \in DOMAIN handshake :
        /\ handshake[i].out = FullHandshake(i)
        /\ handshake[j].phase = "failed"
        /\ handshake[j].msg.tag = 2 /\ handshake[j].msg.decodes
        /\ handshake[j].msg.box # j
        /\ handshake[j].out = SubSeq(FullHandshake(j), 1, 2)

\* ------------------------------------------------------------------ C24
\* the first read of handshake i came back empty or filled the whole buffer
EmptyOrOversize(i) ==
    /\ handshake[i].req # NoReq
    /\ \/ handshake[i].req.len = 0
       \/ handshake[i].req.len >= UPGRADE_MSG_SIZE

\* C24: a first read of 0 bytes, or one that fills the 4096-byte buffer,
\* fails the handshake before a single byte is written
C24_SizeRejected ==
    \A i \in DOMAIN handshake :
        EmptyOrOversize(i) => handshake[i].phase = "failed" /\ handshake[i].out = <<>>

\* an empty read and a buffer-filling read of an otherwise acceptable
\* request have both been turned away
C24_Witness ==
    \E i, j \in DOMAIN handshake :
        /\ handshake[i].req.len = 0
        /\ handshake[j].req.len = UPGRADE_MSG_SIZE
        /\ \A k \in {i, j} :
              /\ handshake[k].req.status = "complete"
              /\ validate_headers(handshake[k].req.headers)
              /\ handshake[k].phase = "failed"

\* ------------------------------------------------------------------ C25
\* the ClientInfo of handshake i opened, and its JSON is of another version
\* than 2 or lacks a field or has one of the wrong type
BadPayload(i) ==
    /\ OpensClientInfo(i)
    /\ \/ handshake[i].msg.json.version # 2
       \/ ~from_slice(handshake[i].msg.json).ok

\* C25: a ClientInfo that decrypts but whose JSON is not version 2, or is
\* malformed, fails the handshake: no ServerInfo, no registration
C25_BadPayloadRejected ==
    \A i \in DOMAIN handshake :
        BadPayload(i) =>
            /\ handshake[i].phase = "failed"
            /\ handshake[i].out = SubSeq(FullHandshake(i), 1, 2)
            /\ handshake[i].client = 0

\* what holds of C25: the malformed payloads are turned away
C25_MalformedRejected ==
    \A i \in DOMAIN handshake :
        (OpensClientInfo(i) /\ ~from_slice(handshake[i].msg.json).ok) =>
            /\ handshake[i].phase = "failed"
            /\ handshake[i].client = 0

\* ------------------------------------------------------------------ C26
\* the request carries a header `name` whose value, in lower case, is in vs
Carries(req, name, vs) ==
    \E k \in DOMAIN req.headers :
        /\ req.headers[k].name = name
        /\ to_ascii_lowercase(req.headers[k].value) \in vs

\* C26: the 200 response is written only for a request that carries an
\* Upgrade header of value WebSocket or derp and a Connection header of
\* value upgrade
C26_UpgradeRequired ==
    \A i \in DOMAIN handshake :
        [ty |-> "200 OK"] \in {handshake[i].out[k] : k \in DOMAIN handshake[i].out} =>
            /\ Carries(handshake[i].req, "Upgrade", {"websocket", "derp"})
            /\ Carries(handshake[i].req, "Connection", {"upgrade"})

\* what holds of C26: a header that is there with another value is refused
C26_WrongValueRejected ==
    \A i \in DOMAIN handshake :
        (\E k \in DOMAIN handshake[i].req.headers :
            \/ /\ handshake[i].req.headers[k].name = "Upgrade"
               /\ handshake[i].req.headers[k].value = "h2c"
            \/ /\ handshake[i].req.headers[k].name = "Connection"
               /\ handshake[i].req.headers[k].value = "close")
        => handshake[i].out = <<>>

\* ------------------------------------------------------------------ C27
\* the bytes decoded are those the encoder wrote
Untampered == codec.stage = "decoded" /\ codec.tamper = "none"

\* C27: decoding the encoding of a frame of any of the eight types gives
\* the frame back
C27_RoundTrip ==
    Untampered => codec.decoded.ok /\ codec.decoded.frame = codec.frame

\* a ForwardPacket with a key of distinct bytes and a payload went through
C27_Witness ==
    /\ Untampered
    /\ codec.frame.frame_type = "ForwardPacket"
    /\ codec.frame.inner[1] = [i \in 1..32 |-> i]
    /\ codec.frame.inner[3] # <<>>
    /\ codec.decoded.ok

\* ------------------------------------------------------------------ C28
\* C28: as long as only a strict prefix of the encoding has come in, the
\* stream decoder says InsufficientData and keeps every byte; with the last
\* byte it returns the whole frame and its buffer is empty
C28_PrefixInsufficient ==
    (codec.stage \in {"wire", "message", "failed"} /\ codec.tamper = "none") =>
        IF codec.fed < Len(codec.wire)
        THEN /\ codec.last = "InsufficientData"
             /\ codec.data = SubSeq(codec.wire, 1, codec.fed)
             /\ codec.stage = "wire"
        ELSE /\ codec.last = "Message"
             /\ codec.message = codec.wire
             /\ codec.ty = codec.frame.frame_type
             /\ codec.data = <<>>

\* the whole frame came out after a prefix longer than the header had been
\* answered with InsufficientData
C28_Witness ==
    /\ codec.stage = "message"
    /\ codec.partial
    /\ Len(codec.message) > 2 * HEADER_SIZE
    /\ codec.message = codec.wire

\* ------------------------------------------------------------------ C29
\* the length the bytes declare and the body bytes there are
Declared(w) == u32_decode(SubSeq(w, 2, HEADER_SIZE)).val
Available(w) == Len(w) - HEADER_SIZE
\* the bytes the body type of ty takes out of n declared bytes
RECURSIVE Consumed(_, _)
Consumed(fs, n) ==
    IF fs = <<>> THEN 0
    ELSE IF Head(fs) < 0 THEN (IF n > 0 THEN n ELSE 0)
         ELSE Head(fs) + Consumed(Tail(fs), n - Head(fs))

\* C29: the length-wrapped decode fails when the declared length exceeds
\* the bytes there are, and when the body type does not use up the declared
\* length
C29_LengthMismatchFails ==
    (codec.stage = "decoded" /\ Len(codec.wire) >= HEADER_SIZE) =>
        ((\/ Declared(codec.wire) > Available(codec.wire)
          \/ Consumed(Fields(codec.frame.frame_type), Declared(codec.wire))
                # Declared(codec.wire))
         => ~codec.decoded.ok)

\* a PeerPresent whose body is declared 33 bytes long, with 33 bytes there,
\* was refused
C29_Witness ==
    /\ codec.stage = "decoded"
    /\ codec.frame.frame_type = "PeerPresent"
    /\ Declared(codec.wire) = 33
    /\ Available(codec.wire) = 33
    /\ ~codec.decoded.ok

\* ------------------------------------------------------------------ C30
\* C30: every encoded frame is the type byte, the length of the body as four
\* bytes big endian, and the body; an empty ServerInfo is 03 00 00 00 00 and
\* a ServerKey is 01 00 00 00 28, the magic and the key
C30_FrameLayout ==
    (codec.stage = "wire" /\ codec.tamper = "none") =>
        LET w == codec.wire
            f == codec.frame
        IN  /\ Len(w) >= HEADER_SIZE
            /\ w[1] = FrameTag(f.frame_type)
            /\ w[2] * 16777216 + w[3] * 65536 + w[4] * 256 + w[5] = Len(w) - HEADER_SIZE
            /\ f = [frame_type |-> "ServerInfo", inner |-> <<<<>>>>]
                  => w = <<3, 0, 0, 0, 0>>
            /\ f.frame_type = "ServerKey"
                  => w = <<1, 0, 0, 0, 40>> \o MAGIC \o f.inner[2]

\* a ServerKey frame has been encoded
C30_Witness ==
    /\ codec.stage = "wire"
    /\ codec.frame.frame_type = "ServerKey"
    /\ Len(codec.wire) = 45

\* ------------------------------------------------------------------ C31
\* C31: the clients directory and the mesh directory of a relay change only
\* in a step in which its command loop takes a command; no other task
\* inserts into or removes from either directory.
C31_Step ==
    \A r \in Relays :
        (peers_sinks'[r] # peers_sinks[r] \/ mesh'[r] # mesh[r]) => LoopTakes(r)
C31_OnlyLoopMutates == [][C31_Step]_vars

\* ------------------------------------------------------------------ C32
\* how often PeerPresent{k} has been put, or is about to be put by a spawned
\* notifier, on the queue of connection s
Announced(s, k) ==
    Cardinality({i \in DOMAIN conn[s].q :
                    conn[s].q[i].ty = "PeerPresent" /\ conn[s].q[i].pk = k})
    + Cardinality({i \in DOMAIN conn[s].out :
                    /\ conn[s].out[i].frame.ty = "PeerPresent"
                    /\ conn[s].out[i].frame.pk = k})
    + Cardinality({ij \in {<<i, j>> : i \in DOMAIN notifiers, j \in 1..MaxConn} :
                    /\ ij[2] \in DOMAIN notifiers[ij[1]]
                    /\ notifiers[ij[1]][ij[2]].sink = s
                    /\ notifiers[ij[1]][ij[2]].pk = k})

\* client x registered once, mesh peer m connected once and sent WatchConns
\* once, the command loop has processed that subscription, and the writer
\* that owns m's sink is running (no write to m's socket has failed)
OnceEach(x, m) ==
    /\ conn[x].kind = "client" /\ ~conn[x].can_mesh
    /\ conn[m].kind = "client" /\ conn[m].can_mesh
    /\ conn[m].wr = "run"
    /\ conn[x].relay = conn[m].relay
    /\ \A c \in Conns : conn[c].pk = conn[x].pk => c = x
    /\ \A c \in Conns : conn[c].pk = conn[m].pk => c = m
    /\ Cardinality({e \in sent : e.conn = m /\ e.frame.ty = "WatchConns"}) = 1
    /\ mesh[conn[m].relay][conn[m].pk] = m

\* C32: a client that registers once is announced to a mesh peer that
\* subscribes once exactly once, whichever of the two comes first
C32_AnnouncedOnce ==
    \A x \in Conns, m \in Conns :
        OnceEach(x, m) => Announced(m, conn[x].pk) = 1

\* the client registered after the subscription was processed and its
\* PeerPresent went out on the wire of the mesh peer
C32_Witness ==
    \E x \in Conns, m \in Conns :
        /\ OnceEach(x, m)
        /\ m < x
        /\ conn[x].pk \notin lastSub.snap
        /\ \E i \in DOMAIN conn[m].out :
              /\ conn[m].out[i].frame.ty = "PeerPresent"
              /\ conn[m].out[i].frame.pk = conn[x].pk

\* ------------------------------------------------------------------ C33
\* the connection presented a mesh key that is not the one of its relay
\* (which may have none)
WrongMeshKey(c) == c.mk # NoKey /\ c.mk # meshkey[c.relay]

\* C33: the step in which a connection that presents a mesh key to a relay
\* without one, or another key than the relay's, comes out of its handshake
\* leaves both directories as they are, starts neither a reader nor a writer
\* for it and sends no PeerPresent to any mesh peer
C33_Step ==
    (Len(conn') = Len(conn) + 1 /\ WrongMeshKey(conn'[Len(conn')])) =>
        /\ peers_sinks' = peers_sinks
        /\ mesh' = mesh
        /\ conn'[Len(conn')].rd # "run"
        /\ conn'[Len(conn')].wr # "run"
        /\ notifiers' = notifiers
        /\ owed' = owed
        /\ \A c \in Conns : conn'[c].q = conn[c].q
C33_RejectedLeavesNoTrace == [][C33_Step]_vars

\* a connection with a wrong mesh key was turned away by a relay that has a
\* mesh peer to notify
C33_Witness ==
    \E n \in Conns :
        /\ WrongMeshKey(conn[n])
        /\ conn[n].kind = "rejected"
        /\ meshkey[conn[n].relay] # NoKey
        /\ KeysOf(mesh[conn[n].relay]) # {}

\* ------------------------------------------------------------------ C34
\* C34: every entry of a mesh directory is the sink of an outbound mesh
\* client or of a connection that was admitted with the mesh key of the
\* relay; a connection admitted with can_mesh = false never gets there,
\* whatever it sends
C34_MeshEntriesAuthenticated ==
    \A r \in Relays, k \in Keys :
        mesh[r][k] # NoSink =>
            LET c == conn[mesh[r][k]] IN
            \/ c.kind = "mesh"
            \/ c.kind = "client" /\ c.can_mesh /\ c.mk = meshkey[r]

\* a plain client has sent WatchConns on a relay whose mesh directory holds
\* the entry of a mesh peer that subscribed
C34_Witness ==
    \E e \in sent : \E k \in Keys :
        /\ e.frame.ty = "WatchConns"
        /\ ~conn[e.conn].can_mesh
        /\ conn[e.conn].kind = "client"
        /\ mesh[conn[e.conn].relay][k] # NoSink
        /\ conn[mesh[conn[e.conn].relay][k]].kind = "client"

\* ------------------------------------------------------------------ C35
\* C35: every command on the writer sink of an outbound mesh client, queued
\* or taken by its writer, is a PeerPresent: no SendPacket is ever dispatched
\* to that sink
C35_MeshSinkOnlyPeerPresent ==
    \A c \in Conns :
        conn[c].kind = "mesh" =>
            \A i \in 1..Len(conn[c].q) : conn[c].q[i].ty = "PeerPresent"

\* ------------------------------------------------------------------ C36
\* C36: an outbound mesh client whose sink is in a mesh directory has
\* completed its startup sequence: it has written WatchConns to its peer; a
\* client whose startup failed has no entry
C36_MeshEntryAfterStartup ==
    \A r \in Relays, k \in Keys :
        (mesh[r][k] # NoSink /\ conn[mesh[r][k]].kind = "mesh") =>
            \E i \in 1..Len(conn[mesh[r][k]].out) :
                conn[mesh[r][k]].out[i].frame.ty = "WatchConns"

NextHop(r, k) ==
    LET s == peers_sinks[r][k] IN
    IF s = NoSink THEN 0
    ELSE IF conn[s].peer > 0 /\ (conn[s].kind = "mesh" \/ conn[s].can_mesh)
         THEN conn[conn[s].peer].relay
         ELSE 0

RECURSIVE NoRevisit(_, _, _)
NoRevisit(r, k, seen) ==
    LET n == NextHop(r, k) IN
    IF n = 0 THEN TRUE
    ELSE IF n \in seen \cup {r} THEN FALSE
    ELSE NoRevisit(n, k, seen \cup {r})

\* C39: for every key, following the entries of the client directories from
\* relay to relay never comes back to a relay already visited
C39_NoForwardingLoop ==
    \A r \in Relays, k \in Keys : NoRevisit(r, k, {})

\* ------------------------------------------------------------------ C40
\* C40: between two meshed relays no command loop stays blocked or stops:
\* whenever a reader has put a command into the command channel of a relay,
\* the command loop of that relay takes it, dispatches or drops it and waits
\* for the next command again
C40_CommandsServed ==
    \A r \in Relays :
        (cmdq[r] # <<>>) ~> (cmdq[r] = <<>> /\ cloop[r].st = "recv")

====
